---- MODULE Spec2Model ----
(***************************************************************************)
(* Quiz-App: the quiz session (Quiz, src/quiz.js), the per-question round  *)
(* controller (Question, src/unnamed/part_000 = question.js) and the start *)
(* page wiring (src/index.js), as one state machine.                       *)
(***************************************************************************)
EXTENDS Integers, Sequences, FiniteSets, TLC

(***************************************************************************)
(* IEEE-754 double arithmetic, as far as Quiz.getScorePercentage needs it. *)
(* A positive double is [m, e]: m its 53 significand bits, most            *)
(* significant first (m[1] = 1), e the exponent of m[1]; the value is      *)
(* m[1]*2^e + m[2]*2^(e-1) + ... .  Zero is DZero.                         *)
(***************************************************************************)
MantissaBits == 53

DZero == [zero |-> TRUE]

RECURSIVE NatBits(_)
NatBits(x) == IF x = 0 THEN <<>> ELSE Append(NatBits(x \div 2), x % 2)

RECURSIVE BitsNat(_)
BitsNat(b) ==
  IF b = <<>> THEN 0
  ELSE 2 * BitsNat(SubSeq(b, 1, Len(b) - 1)) + b[Len(b)]

RECURSIVE Pow2(_)
Pow2(z) == IF z = 0 THEN 1 ELSE 2 * Pow2(z - 1)

\* b + 1 on a bit string; carry is 1 when b was all ones.
IncBits(b) ==
  LET zeros == {i \in 1..Len(b) : b[i] = 0}
  IN IF zeros = {} THEN [bits |-> [i \in 1..Len(b) |-> 0], carry |-> 1]
     ELSE LET p == CHOOSE i \in zeros : \A j \in zeros : j <= i
          IN [bits |-> [i \in 1..Len(b) |->
                          IF i < p THEN b[i] ELSE IF i = p THEN 1 ELSE 0],
              carry |-> 0]

\* Round-to-nearest, ties-to-even, of the exact value bits*2^e (+ a nonzero
\* tail below the last bit when sticky) to 53 significant bits.
RoundToDouble(bits, e, sticky) ==
  LET n     == Len(bits)
      keep  == [i \in 1..MantissaBits |-> IF i <= n THEN bits[i] ELSE 0]
      guard == IF n > MantissaBits THEN bits[MantissaBits + 1] ELSE 0
      rest  == sticky \/ \E i \in (MantissaBits + 2)..n : bits[i] = 1
      up    == guard = 1 /\ (rest \/ keep[MantissaBits] = 1)
      inc   == IncBits(keep)
  IN IF ~up THEN [zero |-> FALSE, m |-> keep, e |-> e]
     ELSE IF inc.carry = 1
          THEN [zero |-> FALSE,
                m |-> [i \in 1..MantissaBits |-> IF i = 1 THEN 1 ELSE 0],
                e |-> e + 1]
          ELSE [zero |-> FALSE, m |-> inc.bits, e |-> e]

\* x as exactly w binary digits (x < 2^w).
PadBits(x, w) ==
  LET b == NatBits(x)
  IN [i \in 1..w |-> IF i <= w - Len(b) THEN 0 ELSE b[i - (w - Len(b))]]

\* The arithmetic below works on LimbBits binary digits at a time, so that
\* every intermediate product stays far below 2^31.
LimbBits == 9

\* acc followed by cnt limbs of binary digits of r/n after the point
\* (0 <= r < n), and what remains.
RECURSIVE FracBits(_, _, _, _)
FracBits(r, n, cnt, acc) ==
  IF cnt = 0 THEN [bits |-> acc, rem |-> r]
  ELSE FracBits((r * Pow2(LimbBits)) % n, n, cnt - 1,
                acc \o PadBits((r * Pow2(LimbBits)) \div n, LimbBits))

\* Zero digits of r/n right after the point (0 < r < n).
RECURSIVE LeadZeros(_, _)
LeadZeros(r, n) == IF 2 * r >= n THEN 0 ELSE 1 + LeadZeros(2 * r, n)

\* Limbs that hold the 53 significand digits and the rounding digit.
FracLimbs == 6

\* k / n in double arithmetic (k >= 0, n >= 1).
DivDouble(k, n) ==
  IF k = 0 THEN DZero
  ELSE LET ip == k \div n
           r0 == k % n
       IN IF ip > 0
          THEN LET ib == NatBits(ip)
                   fb == FracBits(r0, n, FracLimbs, ib)
               IN RoundToDouble(fb.bits, Len(ib) - 1, fb.rem # 0)
          ELSE LET z  == LeadZeros(r0, n)
                   fb == FracBits(r0 * Pow2(z), n, FracLimbs, <<>>)
               IN RoundToDouble(fb.bits, -(z + 1), fb.rem # 0)

\* bits * c + carry on a bit string, c a small natural, a limb at a time
\* from the least significant end.
RECURSIVE MulSmall(_, _, _)
MulSmall(bits, c, carry) ==
  IF Len(bits) = 0 THEN NatBits(carry)
  ELSE LET L == Len(bits)
           w == IF L < LimbBits THEN L ELSE LimbBits
           t == BitsNat(SubSeq(bits, L - w + 1, L)) * c + carry
       IN MulSmall(SubSeq(bits, 1, L - w), c, t \div Pow2(w))
            \o PadBits(t % Pow2(w), w)

\* d * c in double arithmetic, c a small natural >= 1.
MulDouble(d, c) ==
  IF d.zero THEN DZero
  ELSE LET p == MulSmall(d.m, c, 0)
       IN RoundToDouble(p, d.e + (Len(p) - MantissaBits), FALSE)

\* Math.round: the nearest integer, a half going up (d >= 0, d < 2^30).
MathRound(d) ==
  IF d.zero THEN 0
  ELSE IF d.e < -1 THEN 0
  ELSE IF d.e = -1 THEN 1
  ELSE BitsNat(SubSeq(d.m, 1, d.e + 1))
       + (IF d.e + 2 <= MantissaBits THEN d.m[d.e + 2] ELSE 0)


(***************************************************************************)
(* JavaScript numbers.  The model's numbers are integers; NaN (parseInt of *)
(* a text with no leading digits, and arithmetic on it) and JSON's null    *)
(* (what JSON.stringify writes for NaN) are two values outside them.       *)
(***************************************************************************)
NaN == -1
Null == -2

\* ToNumber, as the comparison and subtraction operators apply it.
ToNumber(x) == IF x = Null THEN 0 ELSE x

\* a < b and a > b: false whenever an operand is NaN.
JsLess(a, b) == ToNumber(a) # NaN /\ ToNumber(b) # NaN /\ ToNumber(a) < ToNumber(b)
JsGreater(a, b) == JsLess(b, a)

(***************************************************************************)
(* Text.  A text is a sequence of characters.  The provider's text is      *)
(* HTML-encoded: one of its characters may be the entity "&quot;".         *)
(***************************************************************************)
decodeEntity(c) == IF c = "&quot;" THEN "\"" ELSE c

\* Question.decodeHtml: the text content of the parsed HTML.
decodeHtml(html) == [i \in 1..Len(html) |-> decodeEntity(html[i])]

\* String.prototype.toLowerCase.
lowerChar(c) == IF c = "A" THEN "a" ELSE IF c = "B" THEN "b" ELSE c
toLowerCase(s) == [i \in 1..Len(s) |-> lowerChar(s[i])]

\* What button.dataset.answer reads back for a button rendered as
\* <button data-answer="${ans}">: the HTML parser ends the attribute value at
\* the first double quote of ans and decodes the entities of what is left.
datasetAnswer(ans) ==
  LET quotes == {i \in 1..Len(ans) : ans[i] = "\""}
      cut    == IF quotes = {} THEN Len(ans)
                ELSE (CHOOSE i \in quotes : \A j \in quotes : i <= j) - 1
  IN decodeHtml(SubSeq(ans, 1, cut))

(***************************************************************************)
(* The provider.  It answers a request with a transport status, its own    *)
(* response code and a list of question records.                           *)
(***************************************************************************)
MaxResults == 2

\* The records the provider draws its answers from (its text HTML-encoded):
\* a plain one, one whose wrong answer differs from the correct one only in
\* case, and one whose correct answer begins with a double quote.
QuestionBank ==
  { [correct_answer |-> <<"a">>, incorrect_answers |-> << <<"b">> >>],
    [correct_answer |-> <<"A">>, incorrect_answers |-> << <<"a">> >>],
    [correct_answer |-> <<"&quot;", "a">>, incorrect_answers |-> << <<"b">> >>] }

RECURSIVE SeqsUpTo(_, _)
SeqsUpTo(S, n) ==
  IF n = 0 THEN {<<>>}
  ELSE LET shorter == SeqsUpTo(S, n - 1)
       IN shorter \cup {Append(q, x) : q \in {t \in shorter : Len(t) = n - 1}, x \in S}

ResultSets == SeqsUpTo(QuestionBank, MaxResults)

Responses ==
  [status : {"rejected", "not ok", "ok"}, response_code : {0, 1}, results : ResultSets]

(***************************************************************************)
(* Quiz (src/quiz.js).                                                     *)
(***************************************************************************)
NoQuiz == [numberOfQuestions |-> NaN, score |-> NaN, questions |-> <<>>,
           currentQuestionIndex |-> NaN]

\* constructor
Quiz(numberOfQuestions) ==
  [numberOfQuestions |-> numberOfQuestions, score |-> 0, questions |-> <<>>,
   currentQuestionIndex |-> 0]

\* getQuestions without the check of response.ok.
getQuestions_noStatusCheck(q, resp) ==
  IF resp.status = "rejected"
  THEN [threw |-> TRUE, message |-> "Failed to fetch", quiz |-> q]
  ELSE IF resp.response_code # 0
  THEN [threw |-> TRUE, message |-> "API error: 1", quiz |-> q]
  ELSE [threw |-> FALSE, message |-> "",
        quiz |-> [q EXCEPT !.questions = resp.results]]

\* getQuestions storing data.results before it checks the response code.
getQuestions_storeFirst(q, resp) ==
  IF resp.status = "rejected"
  THEN [threw |-> TRUE, message |-> "Failed to fetch", quiz |-> q]
  ELSE IF resp.status # "ok"
  THEN [threw |-> TRUE, message |-> "Failed to fetch questions", quiz |-> q]
  ELSE IF resp.response_code # 0
  THEN [threw |-> TRUE, message |-> "API error: 1",
        quiz |-> [q EXCEPT !.questions = resp.results]]
  ELSE [threw |-> FALSE, message |-> "",
        quiz |-> [q EXCEPT !.questions = resp.results]]

\* getQuestions, resumed with the provider's response: what it throws, or the
\* session with the questions stored.  The message of the provider's error
\* ends in the response code, and 1 is the failing code of Responses.
getQuestions(q, resp) ==
  IF resp.status = "rejected"
  THEN [threw |-> TRUE, message |-> "Failed to fetch", quiz |-> q]
  ELSE IF resp.status # "ok"
  THEN [threw |-> TRUE, message |-> "Failed to fetch questions", quiz |-> q]
  ELSE IF resp.response_code # 0
  THEN [threw |-> TRUE, message |-> "API error: 1", quiz |-> q]
  ELSE [threw |-> FALSE, message |-> "",
        quiz |-> [q EXCEPT !.questions = resp.results]]

\* incrementScore adding 2.
incrementScore_twice(q) == [q EXCEPT !.score = q.score + 2]

incrementScore(q) == [q EXCEPT !.score = q.score + 1]

NoQuestion == [correct_answer |-> <<>>, incorrect_answers |-> <<>>]

\* getCurrentQuestion: NoQuestion stands for null.
getCurrentQuestion(q) ==
  IF q.currentQuestionIndex < Len(q.questions)
  THEN q.questions[q.currentQuestionIndex + 1]
  ELSE NoQuestion

\* isComplete with > for >=.
isComplete_strict(q) == q.currentQuestionIndex > Len(q.questions)

isComplete(q) == q.currentQuestionIndex >= Len(q.questions)

\* nextQuestion reporting more questions whatever the index.
nextQuestion_alwaysMore(q) ==
  LET moved == [q EXCEPT !.currentQuestionIndex = q.currentQuestionIndex + 1]
  IN [quiz |-> moved, returns |-> TRUE]

\* nextQuestion skipping a question.
nextQuestion_skip(q) ==
  LET moved == [q EXCEPT !.currentQuestionIndex = q.currentQuestionIndex + 2]
  IN [quiz |-> moved, returns |-> moved.currentQuestionIndex < Len(moved.questions)]

\* nextQuestion reporting the end one question early.
nextQuestion_stopsEarly(q) ==
  LET moved == [q EXCEPT !.currentQuestionIndex = q.currentQuestionIndex + 1]
  IN [quiz |-> moved, returns |-> moved.currentQuestionIndex + 1 < Len(moved.questions)]

\* nextQuestion: the session after the call, and what the call returns.
nextQuestion(q) ==
  LET moved == [q EXCEPT !.currentQuestionIndex = q.currentQuestionIndex + 1]
  IN [quiz |-> moved, returns |-> ~isComplete(moved)]

getScorePercentage(q) ==
  IF q.numberOfQuestions = NaN THEN NaN
  ELSE MathRound(MulDouble(DivDouble(q.score, q.numberOfQuestions), 100))


(***************************************************************************)
(* The leaderboard in localStorage, key 'quizHighScores'.  The stored item *)
(* is absent ("null"), text that is not JSON ("text"), JSON that is not an *)
(* array ("nonarray": null, a number, an object) or a JSON array of        *)
(* entries.                                                                *)
(***************************************************************************)
MaxHighScores == 10

StoredArray(items) == [kind |-> "array", items |-> items]
StoredOther(kind) == [kind |-> kind, items |-> <<>>]

\* getHighScores: the parsed value; array is FALSE when it is not an array.
getHighScores(stored) ==
  IF stored.kind = "array" THEN [array |-> TRUE, items |-> stored.items]
  ELSE IF stored.kind = "nonarray" THEN [array |-> FALSE, items |-> <<>>]
  ELSE [array |-> TRUE, items |-> <<>>]

\* isHighScore: reading .length or .percentage of a value that is not an
\* array throws a TypeError.
isHighScore(q, stored) ==
  LET highScores == getHighScores(stored)
      percentage == getScorePercentage(q)
  IN IF ~highScores.array THEN [threw |-> TRUE, returns |-> FALSE]
     ELSE IF Len(highScores.items) < MaxHighScores
     THEN [threw |-> FALSE, returns |-> TRUE]
     ELSE [threw |-> FALSE,
           returns |-> JsGreater(percentage,
                                 highScores.items[Len(highScores.items)].percentage)]

\* The comparator (a, b) => b.percentage - a.percentage is positive.
comparatorPositive(a, b) == JsGreater(b.percentage, a.percentage)

\* One insertion of a stable sort: x goes right after the last element the
\* comparator does not put after it.
insertStable(sorted, x) ==
  LET stay == {i \in 1..Len(sorted) : ~comparatorPositive(sorted[i], x)}
      at   == IF stay = {} THEN 0 ELSE CHOOSE i \in stay : \A j \in stay : j <= i
  IN SubSeq(sorted, 1, at) \o <<x>> \o SubSeq(sorted, at + 1, Len(sorted))

\* Array.prototype.sort with the comparator above (the sort is stable).
RECURSIVE sortByPercentage(_)
sortByPercentage(list) ==
  IF Len(list) = 0 THEN <<>>
  ELSE insertStable(sortByPercentage(SubSeq(list, 1, Len(list) - 1)), list[Len(list)])

\* JSON.stringify then JSON.parse of a number: NaN comes back as null.
jsonNumber(x) == IF x = NaN THEN Null ELSE x
jsonEntry(entry) == [score |-> jsonNumber(entry.score), total |-> jsonNumber(entry.total),
                     percentage |-> jsonNumber(entry.percentage)]

\* saveHighScore without the sort.
saveHighScore_noSort(q, stored) ==
  LET highScores == getHighScores(stored).items
      newScore   == [score |-> q.score, total |-> q.numberOfQuestions,
                     percentage |-> getScorePercentage(q)]
      pushed     == Append(highScores, newScore)
      kept       == SubSeq(pushed, 1, IF Len(pushed) < MaxHighScores THEN Len(pushed)
                                      ELSE MaxHighScores)
  IN StoredArray([i \in 1..Len(kept) |-> jsonEntry(kept[i])])

\* saveHighScore keeping the last ten of the sorted list: slice(-10).
saveHighScore_keepsLast(q, stored) ==
  LET highScores == getHighScores(stored).items
      newScore   == [score |-> q.score, total |-> q.numberOfQuestions,
                     percentage |-> getScorePercentage(q)]
      sorted     == sortByPercentage(Append(highScores, newScore))
      kept       == SubSeq(sorted, IF Len(sorted) < MaxHighScores THEN 1
                                   ELSE Len(sorted) - MaxHighScores + 1, Len(sorted))
  IN StoredArray([i \in 1..Len(kept) |-> jsonEntry(kept[i])])

\* saveHighScore: the item stored afterwards.
saveHighScore(q, stored) ==
  LET highScores == getHighScores(stored).items
      newScore   == [score |-> q.score, total |-> q.numberOfQuestions,
                     percentage |-> getScorePercentage(q)]
      sorted     == sortByPercentage(Append(highScores, newScore))
      kept       == SubSeq(sorted, 1, IF Len(sorted) < MaxHighScores THEN Len(sorted)
                                      ELSE MaxHighScores)
  IN StoredArray([i \in 1..Len(kept) |-> jsonEntry(kept[i])])

NoResults == [score |-> NaN, total |-> NaN, percentage |-> NaN,
              isNewHighScore |-> FALSE, highScores |-> <<>>]

\* endQuiz reading the high scores for display before it saves.
endQuiz_readsBeforeSaving(q, stored) ==
  LET percentage     == getScorePercentage(q)
      isNewHighScore == isHighScore(q, stored)
      after          == IF isNewHighScore.returns THEN saveHighScore(q, stored) ELSE stored
  IN IF isNewHighScore.threw
     THEN [threw |-> TRUE, stored |-> stored, results |-> NoResults]
     ELSE [threw |-> FALSE, stored |-> after,
           results |-> [score |-> q.score, total |-> q.numberOfQuestions,
                        percentage |-> percentage,
                        isNewHighScore |-> isNewHighScore.returns,
                        highScores |-> getHighScores(stored).items]]

\* endQuiz: whether it throws, the item stored afterwards, and the results
\* it renders.
endQuiz(q, stored) ==
  LET percentage     == getScorePercentage(q)
      isNewHighScore == isHighScore(q, stored)
      after          == IF isNewHighScore.returns THEN saveHighScore(q, stored) ELSE stored
  IN IF isNewHighScore.threw
     THEN [threw |-> TRUE, stored |-> stored, results |-> NoResults]
     ELSE [threw |-> FALSE, stored |-> after,
           results |-> [score |-> q.score, total |-> q.numberOfQuestions,
                        percentage |-> percentage,
                        isNewHighScore |-> isNewHighScore.returns,
                        highScores |-> getHighScores(after).items]]

(***************************************************************************)
(* Question (src/unnamed/part_000, question.js): one round.                *)
(***************************************************************************)
InitialTime == 15
WarningTime == 5

\* The outcomes of Math.random in shuffleAnswers for n answers: js[i] is the
\* 0-based index j drawn for the 0-based index i, i = n-1 down to 1.
RandomDraws(n) == {js \in [1..(n - 1) -> 0..(n - 1)] : \A i \in 1..(n - 1) : js[i] <= i}

\* [answers[i], answers[j]] = [answers[j], answers[i]], had it assigned
\* answers[i] alone.
swap_copies(answers, i, j) ==
  [k \in 1..Len(answers) |-> IF k = i THEN answers[j] ELSE answers[k]]

\* [answers[i], answers[j]] = [answers[j], answers[i]]
swap(answers, i, j) ==
  [k \in 1..Len(answers) |->
     IF k = i THEN answers[j] ELSE IF k = j THEN answers[i] ELSE answers[k]]

RECURSIVE fisherYates(_, _, _)
fisherYates(answers, i, js) ==
  IF i = 0 THEN answers
  ELSE fisherYates(swap(answers, i + 1, js[i] + 1), i - 1, js)

\* shuffleAnswers
shuffleAnswers(wrongAnswers, correctAnswer, js) ==
  LET answers == Append(wrongAnswers, correctAnswer)
  IN fisherYates(answers, Len(answers) - 1, js)

NoRound == [index |-> NaN, correctAnswer |-> <<>>, allAnswers |-> <<>>,
            answered |-> FALSE, timerRunning |-> FALSE, timeRemaining |-> NaN,
            keydownListener |-> FALSE, buttons |-> <<>>, warning |-> FALSE,
            timeUpMessage |-> FALSE, exit |-> FALSE]

\* constructor followed by displayQuestion, for a session whose current
\* question exists: the fields of the Question, the answer buttons it renders
\* (each with its data-answer and its classes), the keydown listener and the
\* running countdown.
Question(q, js) ==
  LET questionData  == getCurrentQuestion(q)
      correctAnswer == decodeHtml(questionData.correct_answer)
      wrongAnswers  == [i \in 1..Len(questionData.incorrect_answers) |->
                          decodeHtml(questionData.incorrect_answers[i])]
      allAnswers    == shuffleAnswers(wrongAnswers, correctAnswer, js)
  IN [index |-> q.currentQuestionIndex,
      correctAnswer |-> correctAnswer,
      allAnswers |-> allAnswers,
      answered |-> FALSE,
      timerRunning |-> TRUE,
      timeRemaining |-> InitialTime,
      keydownListener |-> TRUE,
      buttons |-> [i \in 1..Len(allAnswers) |->
                     [answer |-> datasetAnswer(allAnswers[i]), classes |-> {}]],
      warning |-> FALSE,
      timeUpMessage |-> FALSE,
      exit |-> FALSE]

\* The draws a new Question may make for the session's current question.
DrawsFor(q) == RandomDraws(Len(getCurrentQuestion(q).incorrect_answers) + 1)

addClass(buttons, which, class) ==
  [i \in 1..Len(buttons) |->
     IF i \in which THEN [buttons[i] EXCEPT !.classes = @ \cup {class}] ELSE buttons[i]]

\* highlightCorrectAnswer
highlightCorrectAnswer(r) ==
  [r EXCEPT !.buttons =
     addClass(r.buttons,
              {i \in 1..Len(r.buttons) :
                 toLowerCase(r.buttons[i].answer) = toLowerCase(r.correctAnswer)},
              "correct-reveal")]

\* handleTimeUp: the round afterwards, and the animateQuestion calls it makes.
handleTimeUp(r) ==
  [round |-> [highlightCorrectAnswer([r EXCEPT !.answered = TRUE,
                                               !.keydownListener = FALSE])
                EXCEPT !.timeUpMessage = TRUE],
   scheduled |-> 1]

\* The setInterval callback of startTimer with < 0 for <= 0.
timerTick_late(r) ==
  LET ticked == [r EXCEPT !.timeRemaining = r.timeRemaining - 1,
                          !.warning = r.warning \/ r.timeRemaining - 1 <= WarningTime]
  IN IF ticked.timeRemaining < 0
     THEN handleTimeUp([ticked EXCEPT !.timerRunning = FALSE])
     ELSE [round |-> ticked, scheduled |-> 0]

\* The setInterval callback of startTimer.
timerTick(r) ==
  LET ticked == [r EXCEPT !.timeRemaining = r.timeRemaining - 1,
                          !.warning = r.warning \/ r.timeRemaining - 1 <= WarningTime]
  IN IF ticked.timeRemaining <= 0
     THEN handleTimeUp([ticked EXCEPT !.timerRunning = FALSE])
     ELSE [round |-> ticked, scheduled |-> 0]

\* checkAnswer without its call of stopTimer.
checkAnswer_timerRuns(r, q, k) ==
  IF r.answered THEN [round |-> r, quiz |-> q, scheduled |-> 0]
  ELSE LET stopped        == [r EXCEPT !.answered = TRUE, !.keydownListener = FALSE]
           selectedAnswer == r.buttons[k].answer
           isCorrect      == toLowerCase(selectedAnswer) = toLowerCase(r.correctAnswer)
           marked         == IF isCorrect
                             THEN [stopped EXCEPT !.buttons = addClass(@, {k}, "correct")]
                             ELSE highlightCorrectAnswer(
                                    [stopped EXCEPT !.buttons = addClass(@, {k}, "wrong")])
       IN [round |-> [marked EXCEPT !.buttons = addClass(@, 1..Len(@), "disabled")],
           quiz |-> IF isCorrect THEN [q EXCEPT !.score = q.score + 1] ELSE q,
           scheduled |-> 1]

\* checkAnswer without its guard on this.answered.
checkAnswer_noGuard(r, q, k) ==
  LET stopped        == [r EXCEPT !.answered = TRUE, !.timerRunning = FALSE,
                                  !.keydownListener = FALSE]
      selectedAnswer == r.buttons[k].answer
      isCorrect      == toLowerCase(selectedAnswer) = toLowerCase(r.correctAnswer)
      marked         == IF isCorrect
                        THEN [stopped EXCEPT !.buttons = addClass(@, {k}, "correct")]
                        ELSE highlightCorrectAnswer(
                               [stopped EXCEPT !.buttons = addClass(@, {k}, "wrong")])
  IN [round |-> [marked EXCEPT !.buttons = addClass(@, 1..Len(@), "disabled")],
      quiz |-> IF isCorrect THEN [q EXCEPT !.score = q.score + 1] ELSE q,
      scheduled |-> 1]

\* checkAnswer(answerBtns[k]): the round and the session afterwards, and the
\* animateQuestion calls it makes.
checkAnswer(r, q, k) ==
  IF r.answered THEN [round |-> r, quiz |-> q, scheduled |-> 0]
  ELSE LET stopped        == [r EXCEPT !.answered = TRUE, !.timerRunning = FALSE,
                                       !.keydownListener = FALSE]
           selectedAnswer == r.buttons[k].answer
           isCorrect      == toLowerCase(selectedAnswer) = toLowerCase(r.correctAnswer)
           marked         == IF isCorrect
                             THEN [stopped EXCEPT !.buttons = addClass(@, {k}, "correct")]
                             ELSE highlightCorrectAnswer(
                                    [stopped EXCEPT !.buttons = addClass(@, {k}, "wrong")])
       IN [round |-> [marked EXCEPT !.buttons = addClass(@, 1..Len(@), "disabled")],
           quiz |-> IF isCorrect THEN incrementScore(q) ELSE q,
           scheduled |-> 1]


(***************************************************************************)
(* The start page (src/index.js).                                          *)
(***************************************************************************)
MinQuestions == 1
MaxQuestions == 50

Digits == <<"0", "1", "2", "3", "4", "5", "6", "7", "8", "9">>
isDigit(c) == \E i \in 1..Len(Digits) : Digits[i] = c
digitValue(c) == (CHOOSE i \in 1..Len(Digits) : Digits[i] = c) - 1

\* parseInt(text, 10) of a text without sign or blanks: the number its
\* leading digits spell, NaN when it starts with none.
RECURSIVE parseDigits(_, _, _)
parseDigits(text, i, acc) ==
  IF i > Len(text) \/ ~isDigit(text[i]) THEN acc
  ELSE parseDigits(text, i + 1, 10 * acc + digitValue(text[i]))

parseInt(text) ==
  IF Len(text) = 0 \/ ~isDigit(text[1]) THEN NaN ELSE parseDigits(text, 1, 0)

\* The decimal text of a number below 100.
decimal(n) ==
  IF n < 10 THEN <<Digits[n + 1]>> ELSE <<Digits[(n \div 10) + 1], Digits[(n % 10) + 1]>>

\* What the player may have typed into #questionsNumber: nothing, 0, a count
\* from 1 to MaxCount, one above the maximum, and a number text that
\* parseInt cannot read.
MaxCount == 1
FormValues ==
  {<<>>, decimal(MinQuestions - 1), decimal(MaxQuestions + 1), <<".", "5">>}
    \cup {decimal(n) : n \in MinQuestions..MaxCount}

validateForm(value) ==
  LET numQuestions == parseInt(value)
  IN IF Len(value) = 0
     THEN [isValid |-> FALSE, error |-> "Please enter the number of rounds"]
     ELSE IF JsLess(numQuestions, MinQuestions)
     THEN [isValid |-> FALSE, error |-> "Minimum 1 round required"]
     ELSE IF JsGreater(numQuestions, MaxQuestions)
     THEN [isValid |-> FALSE, error |-> "Maximum 50 rounds allowed"]
     ELSE [isValid |-> TRUE, error |-> ""]

NoRequest == [amount |-> Null]
NoResponse == [status |-> "none", response_code |-> 0, results |-> <<>>]

\* buildApiUrl: the request parameters (difficulty and category, which no
\* operation of the session reads back, are left out).
buildApiUrl(q) == [amount |-> q.numberOfQuestions]

(***************************************************************************)
(* The state.                                                              *)
(***************************************************************************)
VARIABLES
  formHidden,     \* #quizOptions carries the class 'hidden'
  currentQuiz,    \* index.js currentQuiz (NoQuiz: null)
  view,           \* what .questions-container shows
  errorMessage,   \* the message of the error card
  request,        \* the fetch request on its way to the provider
  response,       \* the provider's response on its way back
  round,          \* the Question on display, with its card (NoRound: none)
  animPending,    \* pending first timeouts of animateQuestion
  nextPending,    \* pending second timeouts of animateQuestion
  stored,         \* localStorage item 'quizHighScores'
  results,        \* the results card rendered by endQuiz
  lastEvent,      \* the last answer click or key press the round's page got
  advanceLog      \* what the session's nextQuestion calls returned, in order

vars == <<formHidden, currentQuiz, view, errorMessage, request, response, round,
          animPending, nextPending, stored, results, lastEvent, advanceLog>>

Init ==
  /\ formHidden = FALSE
  /\ currentQuiz = NoQuiz
  /\ view = "empty"
  /\ errorMessage = ""
  /\ request = NoRequest
  /\ response = NoResponse
  /\ round = NoRound
  /\ animPending = 0
  /\ nextPending = 0
  /\ stored = StoredOther("null")
  /\ results = NoResults
  /\ lastEvent = "none"
  /\ advanceLog = <<>>

\* The controls of the form take clicks and keys only while the form is
\* shown: startQuiz hides it before it awaits the questions.
FormInteractive == ~formHidden

\* The page is followed until a session has written the leaderboard: a
\* session that ends in the error card may be restarted any number of times,
\* the session that records its score is followed to its results card and its
\* Play Again, and no session is started after it.
LeaderboardUnwritten == stored.kind # "array"

\* startQuiz without quizOptionsForm.classList.add('hidden').
startQuiz_formShown(value) ==
  LET validation == validateForm(value)
  IN IF ~validation.isValid
     THEN UNCHANGED vars
     ELSE /\ LeaderboardUnwritten
          /\ currentQuiz' = Quiz(parseInt(value))
          /\ formHidden' = FALSE
          /\ view' = "loading"
          /\ request' = buildApiUrl(currentQuiz')
          /\ advanceLog' = <<>>
          /\ UNCHANGED <<errorMessage, response, round, animPending, nextPending,
                         stored, results, lastEvent>>

\* startQuiz up to its await, the player having typed value.  showFormError
\* only shows a message that two timeouts remove again: nothing reads it, and
\* it is not part of the state.
startQuiz(value) ==
  LET validation == validateForm(value)
  IN IF ~validation.isValid
     THEN UNCHANGED vars
     ELSE /\ LeaderboardUnwritten
          /\ currentQuiz' = Quiz(parseInt(value))
          /\ formHidden' = TRUE
          /\ view' = "loading"
          /\ request' = buildApiUrl(currentQuiz')
          /\ advanceLog' = <<>>
          /\ UNCHANGED <<errorMessage, response, round, animPending, nextPending,
                         stored, results, lastEvent>>

\* click on #startQuiz
StartButtonClick(value) ==
  /\ FormInteractive
  /\ startQuiz(value)

\* keydown in #questionsNumber
QuestionsNumberKeydown(key, value) ==
  /\ FormInteractive
  /\ IF key = "Enter" THEN startQuiz(value) ELSE UNCHANGED vars

\* The provider answers the request.
ProviderRespond(resp) ==
  /\ request # NoRequest
  /\ request' = NoRequest
  /\ response' = resp
  /\ UNCHANGED <<formHidden, currentQuiz, view,
                 errorMessage, round, animPending, nextPending, stored, results,
                 lastEvent, advanceLog>>

\* showError
showError(message) ==
  /\ view' = "error"
  /\ errorMessage' = message

\* startQuiz from its await on, without the check for an empty question set:
\* the Question constructor reads a property of null, and the catch block
\* shows the TypeError's message.
startQuizResume_noEmptyCheck(resp) ==
  LET got == getQuestions(currentQuiz, resp)
  IN /\ currentQuiz' = got.quiz
     /\ IF got.threw
        THEN showError(got.message) /\ UNCHANGED round
        ELSE IF getCurrentQuestion(got.quiz) = NoQuestion
        THEN showError("Cannot read properties of null") /\ UNCHANGED round
        ELSE /\ \E js \in DrawsFor(got.quiz) : round' = Question(got.quiz, js)
             /\ view' = "question"
             /\ UNCHANGED errorMessage

\* startQuiz from its await on: getQuestions resumes with the response.
startQuizResume(resp) ==
  LET got == getQuestions(currentQuiz, resp)
  IN /\ currentQuiz' = got.quiz
     /\ IF got.threw
        THEN showError(got.message) /\ UNCHANGED round
        ELSE IF Len(got.quiz.questions) = 0
        THEN showError("No questions found for the selected options") /\ UNCHANGED round
        ELSE /\ \E js \in DrawsFor(got.quiz) : round' = Question(got.quiz, js)
             /\ view' = "question"
             /\ UNCHANGED errorMessage

FetchResume ==
  /\ response # NoResponse
  /\ response' = NoResponse
  /\ startQuizResume(response)
  /\ UNCHANGED <<formHidden, request, animPending,
                 nextPending, stored, results, lastEvent, advanceLog>>

\* resetToStart
resetToStart ==
  /\ view' = "empty"
  /\ errorMessage' = ""
  /\ results' = NoResults
  /\ round' = NoRound
  /\ formHidden' = FALSE
  /\ currentQuiz' = NoQuiz
  /\ lastEvent' = "none"
  /\ advanceLog' = <<>>
  /\ UNCHANGED <<request, response, animPending,
                 nextPending, stored>>

\* click on #retryBtn of the error card
RetryClick ==
  /\ view = "error"
  /\ resetToStart

\* click on .btn-play-again of the results card (onQuizEnd)
PlayAgainClick ==
  /\ view = "results"
  /\ resetToStart

\* The countdown's interval fires.
Tick ==
  /\ round.timerRunning
  /\ LET res == timerTick(round)
     IN /\ round' = res.round
        /\ animPending' = animPending + res.scheduled
  /\ UNCHANGED <<formHidden, currentQuiz, view,
                 errorMessage, request, response, nextPending, stored, results,
                 lastEvent, advanceLog>>

\* What a call of checkAnswer on button k changes.
answer(k) ==
  LET res == checkAnswer(round, currentQuiz, k)
  IN /\ round' = res.round
     /\ currentQuiz' = res.quiz
     /\ animPending' = animPending + res.scheduled

\* click on answer button k of the question card
ClickAnswer(k) ==
  /\ view = "question"
  /\ k \in 1..Len(round.buttons)
  /\ answer(k)
  /\ lastEvent' = "click"
  /\ UNCHANGED <<formHidden, view, errorMessage, request,
                 response, nextPending, stored, results, advanceLog>>

Keys == {"1", "2", "3", "4", "x"}

\* const keys = ['1', '2', '3', '4'] of keydownListener
keys == <<"1", "2", "3", "4">>

\* keys.indexOf(e.key), had the list begun with '0'.
keyIndex_fromZero(key) ==
  IF \E i \in 1..Len(keys) : keys[i] = key
  THEN CHOOSE i \in 1..Len(keys) : keys[i] = key
  ELSE -1

\* keys.indexOf(e.key)
keyIndex(key) ==
  IF \E i \in 1..Len(keys) : keys[i] = key
  THEN (CHOOSE i \in 1..Len(keys) : keys[i] = key) - 1
  ELSE -1

\* keydown on the document while a question card is shown: keydownListener
\* runs if the round has not removed it.
Keydown(key) ==
  /\ view = "question"
  /\ LET index == keyIndex(key)
     IN IF round.keydownListener /\ index # -1 /\ index < Len(round.buttons)
        THEN answer(index + 1)
        ELSE UNCHANGED <<round, currentQuiz, animPending>>
  /\ lastEvent' = "key"
  /\ UNCHANGED <<formHidden, view, errorMessage, request,
                 response, nextPending, stored, results, advanceLog>>

\* The first timeout of animateQuestion.
AnimateExit ==
  /\ animPending > 0
  /\ animPending' = animPending - 1
  /\ nextPending' = nextPending + 1
  /\ round' = IF view = "question" THEN [round EXCEPT !.exit = TRUE] ELSE round
  /\ UNCHANGED <<formHidden, currentQuiz, view,
                 errorMessage, request, response, stored, results, lastEvent,
                 advanceLog>>

\* getNextQuestion.  A Question constructed on null and an endQuiz that throws
\* end the callback with a TypeError after nextQuestion has run.
getNextQuestion ==
  LET next == nextQuestion(currentQuiz)
  IN /\ currentQuiz' = next.quiz
     /\ advanceLog' = Append(advanceLog, next.returns)
     /\ IF next.returns
        THEN IF getCurrentQuestion(next.quiz) = NoQuestion
             THEN UNCHANGED <<round, view, stored, results, lastEvent>>
             ELSE /\ \E js \in DrawsFor(next.quiz) : round' = Question(next.quiz, js)
                  /\ view' = "question"
                  /\ lastEvent' = "none"
                  /\ UNCHANGED <<stored, results>>
        ELSE LET ended == endQuiz(next.quiz, stored)
             IN IF ended.threw
                THEN UNCHANGED <<round, view, stored, results, lastEvent>>
                ELSE /\ stored' = ended.stored
                     /\ results' = ended.results
                     /\ view' = "results"
                     /\ round' = NoRound
                     /\ lastEvent' = "none"

\* The second timeout of animateQuestion.
AnimateNext ==
  /\ nextPending > 0
  /\ nextPending' = nextPending - 1
  /\ getNextQuestion
  /\ UNCHANGED <<formHidden, errorMessage, request,
                 response, animPending>>

Next ==
  \/ \E value \in FormValues : StartButtonClick(value)
  \/ \E value \in FormValues : QuestionsNumberKeydown("Enter", value)
  \/ \E resp \in Responses : ProviderRespond(resp)
  \/ FetchResume
  \/ RetryClick
  \/ PlayAgainClick
  \/ Tick
  \/ \E k \in 1..4 : ClickAnswer(k)
  \/ \E key \in Keys : Keydown(key)
  \/ AnimateExit
  \/ AnimateNext

Spec == Init /\ [][Next]_vars


(***************************************************************************)
(* A session at the end of its last round, for the percentage of every     *)
(* score: the provider has delivered numberOfQuestions questions, the      *)
(* player has scored k of them, the last round is resolved (by the right   *)
(* answer if k > 0, by a wrong one otherwise), and the second timeout of   *)
(* animateQuestion is pending.                                             *)
(***************************************************************************)
PlainQuestion == [correct_answer |-> <<"a">>, incorrect_answers |-> << <<"b">> >>]

LastRound(n, k) ==
  LET before == [numberOfQuestions |-> n,
                 questions |-> [i \in 1..n |-> PlainQuestion],
                 score |-> IF k > 0 THEN k - 1 ELSE 0,
                 currentQuestionIndex |-> n - 1]
      card   == Question(before, [i \in 1..1 |-> 1])
  IN checkAnswer(card, before, IF k > 0 THEN 2 ELSE 1)

InitPct ==
  \E n \in MinQuestions..MaxQuestions : \E k \in 0..n :
    /\ formHidden = TRUE
    /\ currentQuiz = LastRound(n, k).quiz
    /\ view = "question"
    /\ errorMessage = ""
    /\ request = NoRequest
    /\ response = NoResponse
    /\ round = [LastRound(n, k).round EXCEPT !.exit = TRUE]
    /\ animPending = 0
    /\ nextPending = 1
    /\ stored = StoredOther("null")
    /\ results = NoResults
    /\ lastEvent = "click"
    /\ advanceLog = [i \in 1..(n - 1) |-> TRUE]

NextPct ==
  \/ AnimateNext
  \/ PlayAgainClick

SpecPct == InitPct /\ [][NextPct]_vars

(***************************************************************************)
(* The page with its timers: an interval that is running fires again, and  *)
(* a timeout that is pending fires.  The stored item is absent or JSON     *)
(* that is no array when the page loads; the player asks for one question, *)
(* the provider delivers up to MaxResults plain ones, and the player       *)
(* leaves every round to its countdown.                                    *)
(***************************************************************************)
InitLive ==
  /\ formHidden = FALSE
  /\ currentQuiz = NoQuiz
  /\ view = "empty"
  /\ errorMessage = ""
  /\ request = NoRequest
  /\ response = NoResponse
  /\ round = NoRound
  /\ animPending = 0
  /\ nextPending = 0
  /\ stored \in {StoredOther("null"), StoredOther("nonarray")}
  /\ results = NoResults
  /\ lastEvent = "none"
  /\ advanceLog = <<>>

LiveResponses ==
  {[status |-> "ok", response_code |-> 0, results |-> r] :
     r \in SeqsUpTo({PlainQuestion}, MaxResults)}

NextLive ==
  \/ StartButtonClick(decimal(MinQuestions))
  \/ \E resp \in LiveResponses : ProviderRespond(resp)
  \/ FetchResume
  \/ RetryClick
  \/ PlayAgainClick
  \/ Tick
  \/ AnimateExit
  \/ AnimateNext

SpecLive ==
  /\ InitLive
  /\ [][NextLive]_vars
  /\ WF_vars(Tick)
  /\ WF_vars(AnimateExit)
  /\ WF_vars(AnimateNext)

(***************************************************************************)
(* Sessions at the end of their last round over every leaderboard: the     *)
(* stored item is absent, unreadable, JSON that is no array, or a list of  *)
(* at most MaxHighScores entries that earlier sessions have recorded, in   *)
(* the order saveHighScore leaves them in.  The lists are of two kinds:    *)
(* lists with repeated percentages, recorded by sessions of BoardTotal     *)
(* questions and by a session whose number of questions is NaN, and lists  *)
(* of pairwise distinct percentages, recorded by sessions of DistinctTotal *)
(* questions, to which a session with yet another percentage comes.        *)
(***************************************************************************)
BoardTotal == 2

\* MaxHighScores + 1 pairwise distinct percentages take sessions of at least
\* MaxHighScores questions.
DistinctTotal == MaxHighScores

\* A finished session: the number of questions asked for, the number the
\* provider delivered, and the score.
Session(count, len, k) == [count |-> count, len |-> len, k |-> k]

\* The entry saveHighScore pushes for a finished session, as it reads after
\* JSON.stringify and JSON.parse.
entryOf(s) ==
  jsonEntry([score |-> s.k, total |-> s.count,
             percentage |-> getScorePercentage([numberOfQuestions |-> s.count,
                                                score |-> s.k])])

\* The sessions behind the entries of a list, highest percentage first.
TiePool ==
  [i \in 1..(BoardTotal + 1) |-> Session(BoardTotal, BoardTotal, BoardTotal + 1 - i)]
    \o <<Session(NaN, 1, 0)>>
DistinctPool ==
  [i \in 1..(DistinctTotal + 1) |->
     Session(DistinctTotal, DistinctTotal, DistinctTotal + 1 - i)]

\* The entries of a pool's sessions.
TieEntries == [i \in 1..Len(TiePool) |-> entryOf(TiePool[i])]
DistinctEntries == [i \in 1..Len(DistinctPool) |-> entryOf(DistinctPool[i])]

RECURSIVE SumTo(_, _)
SumTo(c, i) == IF i = 0 THEN 0 ELSE c[i] + SumTo(c, i - 1)

\* The list holding c[i] copies of the i-th entry.
RECURSIVE BoardFrom(_, _, _)
BoardFrom(entries, c, i) ==
  IF i > Len(entries) THEN <<>>
  ELSE [j \in 1..c[i] |-> entries[i]] \o BoardFrom(entries, c, i + 1)

BoardsOf(entries, most) ==
  {BoardFrom(entries, c, 1) :
     c \in {d \in [1..Len(entries) -> 0..most] : SumTo(d, Len(entries)) <= MaxHighScores}}

TieBoards == BoardsOf(TieEntries, MaxHighScores)
DistinctBoards == BoardsOf(DistinctEntries, 1)

\* The last round of a session, resolved by the right answer if the session
\* scores k > 0 and by a wrong one otherwise.
LastRoundOf(s) ==
  LET before == [numberOfQuestions |-> s.count,
                 questions |-> [i \in 1..s.len |-> PlainQuestion],
                 score |-> IF s.k > 0 THEN s.k - 1 ELSE 0,
                 currentQuestionIndex |-> s.len - 1]
      card   == Question(before, [i \in 1..1 |-> 1])
  IN checkAnswer(card, before, IF s.k > 0 THEN 2 ELSE 1)

\* The page when the second timeout of animateQuestion is pending for the
\* last round of session s, the stored item being st.
SessionEnding(s, st) ==
  /\ formHidden = TRUE
  /\ currentQuiz = LastRoundOf(s).quiz
  /\ view = "question"
  /\ errorMessage = ""
  /\ request = NoRequest
  /\ response = NoResponse
  /\ round = [LastRoundOf(s).round EXCEPT !.exit = TRUE]
  /\ animPending = 0
  /\ nextPending = 1
  /\ stored = st
  /\ results = NoResults
  /\ lastEvent = "click"
  /\ advanceLog = [i \in 1..(s.len - 1) |-> TRUE]

InitBoard ==
  \/ \E i \in 1..Len(TiePool) :
       \E st \in {StoredOther("null"), StoredOther("text"), StoredOther("nonarray")}
                   \cup {StoredArray(b) : b \in TieBoards} :
         SessionEnding(TiePool[i], st)
  \/ \E i \in 1..Len(DistinctPool) : \E b \in DistinctBoards :
       /\ \A j \in 1..Len(b) : b[j] # DistinctEntries[i]
       /\ SessionEnding(DistinctPool[i], StoredArray(b))

NextBoard ==
  \/ AnimateNext
  \/ PlayAgainClick

SpecBoard == InitBoard /\ [][NextBoard]_vars

(***************************************************************************)
(* One question card at a time: the player has asked for one question, the *)
(* provider has answered with one record of two, three or four choices,    *)
(* and startQuiz is about to resume.  The card is then shuffled every way  *)
(* Math.random allows, and takes ticks, clicks and keys until it is        *)
(* resolved and the session ends.                                          *)
(***************************************************************************)
CardBank ==
  { [correct_answer |-> <<"a">>, incorrect_answers |-> << <<"b">> >>],
    [correct_answer |-> <<"&quot;", "a">>, incorrect_answers |-> << <<"b">> >>],
    [correct_answer |-> <<"a">>, incorrect_answers |-> << <<"b">>, <<"c">> >>],
    [correct_answer |-> <<"a">>,
     incorrect_answers |-> << <<"b">>, <<"c">>, <<"d">> >>] }

InitCard ==
  \E record \in CardBank :
    /\ formHidden = TRUE
    /\ currentQuiz = Quiz(MinQuestions)
    /\ view = "loading"
    /\ errorMessage = ""
    /\ request = NoRequest
    /\ response = [status |-> "ok", response_code |-> 0, results |-> <<record>>]
    /\ round = NoRound
    /\ animPending = 0
    /\ nextPending = 0
    /\ stored = StoredOther("null")
    /\ results = NoResults
    /\ lastEvent = "none"
    /\ advanceLog = <<>>

NextCard ==
  \/ FetchResume
  \/ PlayAgainClick
  \/ Tick
  \/ \E k \in 1..4 : ClickAnswer(k)
  \/ \E key \in Keys : Keydown(key)
  \/ AnimateExit
  \/ AnimateNext

SpecCard == InitCard /\ [][NextCard]_vars

\* The same card played from the keyboard alone.
NextKeys ==
  \/ FetchResume
  \/ PlayAgainClick
  \/ Tick
  \/ \E key \in Keys : Keydown(key)
  \/ AnimateExit
  \/ AnimateNext

SpecKeys == InitCard /\ [][NextKeys]_vars

(***************************************************************************)
(* The properties.                                                         *)
(***************************************************************************)
Pending == animPending + nextPending
PendingAfter == animPending' + nextPending'

FetchErrors == {"Failed to fetch", "Failed to fetch questions", "API error: 1"}
NoQuestionsMessage == "No questions found for the selected options"

\* The step resolves the round on display.
Resolves == round # NoRound /\ ~round.answered /\ round'.answered
ResolvesByChoice == Resolves /\ ~round'.timeUpMessage
ResolvesByTimeout == Resolves /\ round'.timeUpMessage

\* The step is startQuiz resuming with the provider's response.
Resumes == response # NoResponse /\ response' = NoResponse
FailedResponse == response.status # "ok" \/ response.response_code # 0

\* C1: a round is resolved at most once.  Once the round is answered, no
\* click, key press or timer expiry changes the session or the round or
\* schedules an advancement: the score stays, no further advancement is
\* scheduled (there is never more than one), and the round changes only by
\* the advancement already scheduled.
C1_ResolvedAtMostOnce ==
  [][/\ PendingAfter <= 1
     /\ (round # NoRound /\ round.answered) =>
          /\ currentQuiz'.score = currentQuiz.score
          /\ PendingAfter <= Pending
          /\ \/ round' = round
             \/ round' = [round EXCEPT !.exit = TRUE]
             \/ nextPending' < nextPending
          /\ (animPending' = animPending /\ nextPending' = nextPending) =>
               (currentQuiz' = currentQuiz /\ round' = round)]_vars

\* A click arrives at a round that the countdown has already resolved.
C1_LateClick ==
  /\ round # NoRound
  /\ round.answered
  /\ round.timeUpMessage
  /\ lastEvent = "click"

\* C2 (as stated): when the player's choice resolves the round, the score
\* grows by one if the text of the chosen answer equals the correct answer
\* without regard to case, and stays as it is otherwise.
C2_ScoreIffChosenTextCorrect ==
  [][ResolvesByChoice =>
       \A k \in 1..Len(round'.buttons) :
         (round'.buttons[k].classes \cap {"correct", "wrong"} # {}) =>
           currentQuiz'.score =
             currentQuiz.score
               + (IF toLowerCase(round.allAnswers[k]) = toLowerCase(round.correctAnswer)
                  THEN 1 ELSE 0)]_vars

\* C3 (as stated): when the countdown resolves the round, the score and the
\* index stay as they are, the round is answered, the button of the correct
\* answer is revealed, and exactly one advancement is scheduled.
C3_TimeoutRevealsAndSchedulesOnce ==
  [][ResolvesByTimeout =>
       /\ currentQuiz' = currentQuiz
       /\ round'.answered
       /\ PendingAfter = 1
       /\ \E k \in 1..Len(round'.buttons) :
            /\ round'.allAnswers[k] = round'.correctAnswer
            /\ "correct-reveal" \in round'.buttons[k].classes]_vars

\* C4: the index of a session starts at 0 and changes only by the one
\* advancement of a resolved round, which adds exactly 1; a resolved round
\* has exactly one advancement pending until it runs; and the question a new
\* round presents is the one at the index, the first of the set for the first
\* round and the successor of the previous round's after that.
C4_AdvancesOncePerRoundInOrder ==
  [][/\ (currentQuiz = NoQuiz /\ currentQuiz' # NoQuiz) =>
          currentQuiz'.currentQuestionIndex = 0
     /\ (currentQuiz # NoQuiz /\ currentQuiz' # NoQuiz) =>
          \/ currentQuiz'.currentQuestionIndex = currentQuiz.currentQuestionIndex
          \/ /\ currentQuiz'.currentQuestionIndex = currentQuiz.currentQuestionIndex + 1
             /\ round.answered
             /\ round.index = currentQuiz.currentQuestionIndex
             /\ nextPending' = nextPending - 1
     /\ (round' # NoRound /\ round'.answered
           /\ round'.index = currentQuiz'.currentQuestionIndex) => PendingAfter = 1
     /\ (round' # NoRound /\ round'.index # round.index) =>
          /\ round'.index = currentQuiz'.currentQuestionIndex
          /\ round'.index = (IF round = NoRound THEN 0 ELSE round.index + 1)
          /\ round'.index < Len(currentQuiz'.questions)
          /\ round'.correctAnswer =
               decodeHtml(currentQuiz'.questions[round'.index + 1].correct_answer)
     /\ (round # NoRound /\ round' # NoRound /\ round'.index = round.index) =>
          /\ round'.correctAnswer = round.correctAnswer
          /\ round'.allAnswers = round.allAnswers]_vars

\* The second question of a set is on display after one advancement.
C4_SecondQuestionPresented ==
  /\ round # NoRound
  /\ round.index = 1
  /\ currentQuiz.currentQuestionIndex = 1
  /\ advanceLog = <<TRUE>>

\* C5: in a session of N questions the calls of nextQuestion are as many as
\* the index counts, the first N - 1 of them return true and the N-th
\* returns false.
C5_AdvanceTrueUntilLast ==
  currentQuiz # NoQuiz =>
    /\ Len(advanceLog) = currentQuiz.currentQuestionIndex
    /\ Len(advanceLog) <= Len(currentQuiz.questions)
    /\ \A i \in 1..Len(advanceLog) :
         advanceLog[i] = (i < Len(currentQuiz.questions))

\* A session of two questions has advanced twice: true, then false.
C5_TwoQuestionsDone ==
  /\ currentQuiz # NoQuiz
  /\ Len(currentQuiz.questions) = 2
  /\ advanceLog = <<TRUE, FALSE>>

\* C6 (as stated): in a session started with a number of questions, whatever
\* set the provider returns, the score is at least 0 and at most the number
\* of questions asked for.
C6_ScoreWithinQuestionCount ==
  (currentQuiz # NoQuiz /\ currentQuiz.numberOfQuestions # NaN) =>
    /\ 0 <= currentQuiz.score
    /\ currentQuiz.score <= currentQuiz.numberOfQuestions

\* C6 (amended): the score is at least 0 and at most the number of questions
\* the provider returned, and so at most the number asked for whenever the
\* provider returned no more than that.
C6_ScoreWithinQuestionsReturned ==
  currentQuiz # NoQuiz =>
    /\ 0 <= currentQuiz.score
    /\ currentQuiz.score <= Len(currentQuiz.questions)
    /\ (currentQuiz.numberOfQuestions # NaN
          /\ Len(currentQuiz.questions) <= currentQuiz.numberOfQuestions) =>
         currentQuiz.score <= currentQuiz.numberOfQuestions

\* Every question of a set larger than asked for has been answered right.
C6_FullScoreOnLargerSet ==
  /\ currentQuiz # NoQuiz
  /\ currentQuiz.numberOfQuestions # NaN
  /\ Len(currentQuiz.questions) > currentQuiz.numberOfQuestions
  /\ currentQuiz.score = Len(currentQuiz.questions)

\* C7 (as stated): once the request of a session for a number of questions
\* is over, either getQuestions has failed or the session holds exactly that
\* number of questions.
C7_ExactlyQuestionCountOrFails ==
  (/\ currentQuiz # NoQuiz
   /\ currentQuiz.numberOfQuestions # NaN
   /\ view # "loading") =>
    \/ view = "error" /\ errorMessage \in FetchErrors
    \/ Len(currentQuiz.questions) = currentQuiz.numberOfQuestions

\* C7 (amended): getQuestions either stores exactly the records of the
\* provider's response, however many they are, which it does when the
\* response is ok and its code is 0, or fails with an error and stores
\* nothing.
C7_StoresResponseVerbatimOrFails ==
  [][Resumes =>
       IF FailedResponse
       THEN /\ currentQuiz' = currentQuiz
            /\ currentQuiz'.questions = <<>>
            /\ view' = "error"
            /\ errorMessage' \in FetchErrors
       ELSE /\ currentQuiz' = [currentQuiz EXCEPT !.questions = response.results]
            /\ ~(view' = "error" /\ errorMessage' \in FetchErrors)]_vars

\* A session that asked for one question plays the two the provider returned.
C7_MoreThanAskedFor ==
  /\ currentQuiz # NoQuiz
  /\ view = "question"
  /\ currentQuiz.numberOfQuestions = 1
  /\ Len(currentQuiz.questions) = 2

\* C8: when the request is rejected, the response is not ok or its code is
\* not 0, the session keeps the values of its construction (no questions,
\* score 0, index 0), no round and no timer is started, no further request
\* is made, and the error card with its restart button is shown.
C8_FailureKeepsInitialSession ==
  [][(Resumes /\ FailedResponse) =>
       /\ currentQuiz' = Quiz(currentQuiz.numberOfQuestions)
       /\ round' = NoRound
       /\ PendingAfter = 0
       /\ request' = NoRequest
       /\ view' = "error"
       /\ errorMessage' \in FetchErrors]_vars

\* The error card shows the provider's error for a session without questions.
C8_ProviderErrorShown ==
  /\ view = "error"
  /\ errorMessage = "API error: 1"
  /\ currentQuiz = Quiz(1)
  /\ round = NoRound

\* C9: when the provider's response is a success with zero questions, the
\* error card is shown with the message for it, as for a failure, and no
\* round, timer or advancement is started.
C9_EmptySetShowsError ==
  [][(Resumes /\ ~FailedResponse /\ response.results = <<>>) =>
       /\ view' = "error"
       /\ errorMessage' = NoQuestionsMessage
       /\ currentQuiz'.questions = <<>>
       /\ round' = NoRound
       /\ PendingAfter = 0
       /\ request' = NoRequest]_vars

\* The error card for an empty question set is on display.
C9_EmptySetErrorShown ==
  /\ view = "error"
  /\ errorMessage = NoQuestionsMessage
  /\ currentQuiz # NoQuiz
  /\ round = NoRound

\* C10 (as stated): for a session of n >= 1 questions and a score k with
\* 0 <= k <= n, the percentage on the results card is 100 * k / n rounded
\* to the nearest integer, halves rounded up: the integer p in 0..100 with
\* p - 1/2 <= 100 * k / n < p + 1/2.
C10_PercentageRoundsHalfUp ==
  (view = "results" /\ results # NoResults) =>
    /\ results.percentage \in 0..100
    /\ (2 * results.percentage - 1) * results.total <= 200 * results.score
    /\ 200 * results.score < (2 * results.percentage + 1) * results.total

\* The step is the second timeout of animateQuestion after the last round:
\* nextQuestion returns false and getNextQuestion ends the session.
EndsSession ==
  /\ nextPending' = nextPending - 1
  /\ currentQuiz # NoQuiz
  /\ currentQuiz.currentQuestionIndex + 1 >= Len(currentQuiz.questions)

\* The entries a stored item persists.
Persisted(st) == IF st.kind = "array" THEN st.items ELSE <<>>

Percentages(list) == {ToNumber(list[i].percentage) : i \in 1..Len(list)}
Lowest(list) == CHOOSE x \in Percentages(list) : \A y \in Percentages(list) : x <= y
Descending(list) ==
  \A i \in 1..(Len(list) - 1) :
    ToNumber(list[i].percentage) >= ToNumber(list[i + 1].percentage)
Occurrences(e, list) == Cardinality({i \in 1..Len(list) : list[i] = e})

\* The entry of the session whose results card is res.
SummaryEntry(res) ==
  [score |-> jsonNumber(res.score), total |-> jsonNumber(res.total),
   percentage |-> jsonNumber(res.percentage)]

\* C11 (as stated): at the end of a session isHighScore returns true whenever
\* fewer than 10 entries are persisted, whatever the percentage, and with 10
\* persisted entries exactly when the percentage is strictly greater than
\* the lowest persisted percentage.
C11_QualifiesBelowTenOrAboveLowest ==
  [][EndsSession =>
       /\ view' = "results"
       /\ results'.isNewHighScore =
            (\/ Len(Persisted(stored)) < MaxHighScores
             \/ JsGreater(results'.percentage, Lowest(Persisted(stored))))]_vars

\* C12: a persisted list is ordered descending by percentage and holds at
\* most 10 entries, at the end of every session over every such list, and
\* so is what a call of saveHighScore would store.
C12_BoardSortedAndCapped ==
  /\ stored.kind = "array" =>
       (Descending(stored.items) /\ Len(stored.items) <= MaxHighScores)
  /\ (stored.kind = "array" /\ currentQuiz # NoQuiz) =>
       LET saved == saveHighScore(currentQuiz, stored).items
       IN Descending(saved) /\ Len(saved) <= MaxHighScores

\* A session's entry has gone into the middle of a full list.
C12_InsertedIntoFullBoard ==
  /\ view = "results"
  /\ results.isNewHighScore
  /\ Len(stored.items) = MaxHighScores
  /\ \E i \in 2..(MaxHighScores - 1) :
       /\ stored.items[i] = SummaryEntry(results)
       /\ ToNumber(stored.items[i - 1].percentage) > ToNumber(stored.items[i].percentage)
       /\ ToNumber(stored.items[i].percentage) > ToNumber(stored.items[i + 1].percentage)

\* C13: when a session ends over a persisted list of pairwise distinct
\* percentages with a percentage that is not among them, the list persisted
\* afterwards holds the highest percentages of them all, 10 at most, in
\* strictly descending order: of 11, the lowest is the one absent.
C13_KeepsTheTenHighest ==
  [][(/\ EndsSession
      /\ stored.kind = "array"
      /\ Cardinality(Percentages(stored.items)) = Len(stored.items)
      /\ \A i \in 1..Len(stored.items) : stored.items[i].percentage # Null
      /\ getScorePercentage(currentQuiz) # NaN
      /\ getScorePercentage(currentQuiz) \notin Percentages(stored.items)) =>
       LET all  == Percentages(stored.items) \cup {getScorePercentage(currentQuiz)}
           kept == Percentages(Persisted(stored'))
       IN /\ view' = "results"
          /\ kept \subseteq all
          /\ Cardinality(kept) = Len(Persisted(stored'))
          /\ Len(Persisted(stored')) =
               (IF Cardinality(all) < MaxHighScores THEN Cardinality(all)
                ELSE MaxHighScores)
          /\ \A x \in all \ kept : \A y \in kept : x < y
          /\ \A i \in 1..(Len(Persisted(stored')) - 1) :
               stored'.items[i].percentage > stored'.items[i + 1].percentage]_vars

\* The eleventh of eleven distinct percentages was the lowest, and is absent.
C13_EleventhIsLowest ==
  /\ view = "results"
  /\ ~results.isNewHighScore
  /\ Len(stored.items) = MaxHighScores
  /\ Cardinality(Percentages(stored.items)) = MaxHighScores
  /\ results.percentage < Lowest(stored.items)

\* C14 (as stated): whatever the stored item is, the end of a session
\* completes with the results card, and an item that is absent, unreadable
\* or no list of entries counts as an empty history, to which the session's
\* entry is added.
C14_CorruptStorageIsEmptyHistory ==
  [][EndsSession =>
       /\ view' = "results"
       /\ stored.kind # "array" =>
            (results'.isNewHighScore /\ Len(results'.highScores) = 1)]_vars

\* C15: when the result of the session that ends qualifies as a high score,
\* the leaderboard of the results card is the list persisted after the
\* session's entry was recorded, and holds that entry once more than the
\* list persisted before.
C15_SummaryHoldsOwnEntry ==
  [][(EndsSession /\ view' = "results" /\ results'.isNewHighScore) =>
       /\ results'.highScores = Persisted(stored')
       /\ Occurrences(SummaryEntry(results'), results'.highScores) =
            Occurrences(SummaryEntry(results'), Persisted(stored)) + 1]_vars

\* The results card of a new high score shows the session's entry on top of
\* the entries persisted before.
C15_OwnEntryOnTop ==
  /\ view = "results"
  /\ results.isNewHighScore
  /\ Len(results.highScores) > 1
  /\ results.highScores[1] = SummaryEntry(results)
  /\ results.highScores[2] # SummaryEntry(results)

\* The step constructs a new round.
NewRound == round' # NoRound /\ round'.index # round.index
\* The round on display stays the one it was.
SameRound == round # NoRound /\ round' # NoRound /\ round'.index = round.index
\* The step is a call of resetToStart on a session.
ResetsSession == currentQuiz # NoQuiz /\ currentQuiz' = NoQuiz
\* The step is a start event that startQuiz accepts: it issues the request.
StartsSession == request' # NoRequest /\ request' # request

\* C16: the end handler runs only from the results card of a session that
\* is complete, with no round and no timeout left, and takes the card and
\* the session away, so that it cannot run again; the results card is shown
\* only for a complete session, and no session is reset while a round is on
\* display.
C16_EndHandlerOnceAfterCompletion ==
  [][/\ view' = "results" =>
          /\ currentQuiz'.currentQuestionIndex >= Len(currentQuiz'.questions)
          /\ round' = NoRound
     /\ (view = "results" /\ view' # "results") =>
          /\ currentQuiz.currentQuestionIndex >= Len(currentQuiz.questions)
          /\ round = NoRound
          /\ Pending = 0
          /\ currentQuiz' = NoQuiz
          /\ view' = "empty"
     /\ ResetsSession => (view \in {"results", "error"} /\ round = NoRound)]_vars

\* The end handler has run for a session that recorded its score.
C16_HandlerHasRun ==
  /\ view = "empty"
  /\ currentQuiz = NoQuiz
  /\ stored.kind = "array"
  /\ ~formHidden

C18_AnsweredRoundHasNoTimer ==
  /\ (round # NoRound /\ round.answered) => ~round.timerRunning
  /\ view # "question" => ~round.timerRunning

\* The player's choice has resolved a round whose countdown had ticked.
C18_ChoiceAfterTicks ==
  /\ round # NoRound
  /\ round.answered
  /\ ~round.timeUpMessage
  /\ round.timeRemaining < InitialTime
  /\ ~round.timerRunning

\* C19 (as stated): with timers and timeouts that fire, every round on
\* display that is not answered gets answered, and a session that shows a
\* question comes to its results card, after as many rounds as it has
\* questions.
C19_RoundsResolveAndSessionCompletes ==
  /\ (round # NoRound /\ ~round.answered) ~> (round = NoRound \/ round.answered)
  /\ (view = "question") ~>
       (/\ view = "results"
        /\ currentQuiz.currentQuestionIndex = Len(currentQuiz.questions)
        /\ Len(advanceLog) = Len(currentQuiz.questions))

\* C20: timeRemaining starts at 15 in a new round, lies between 0 and 15,
\* changes only by a tick of the running countdown of an unanswered round,
\* which takes 1 off, and stays as it is once the round is answered; the
\* countdown resolves the round exactly in the tick from 1 to 0.
C20_CountdownFromFifteenToZero ==
  [][/\ round' # NoRound =>
          (0 <= round'.timeRemaining /\ round'.timeRemaining <= InitialTime)
     /\ NewRound => round'.timeRemaining = InitialTime
     /\ SameRound =>
          \/ round'.timeRemaining = round.timeRemaining
          \/ /\ round'.timeRemaining = round.timeRemaining - 1
             /\ ~round.answered
             /\ round.timerRunning
     /\ (SameRound /\ round.answered) => round'.timeRemaining = round.timeRemaining
     /\ ResolvesByTimeout <=>
          (SameRound /\ round.timeRemaining = 1 /\ round'.timeRemaining = 0)]_vars

\* The countdown has run out on a round that got no click and no key.
C20_RanOutUntouched ==
  /\ round # NoRound
  /\ round.timeUpMessage
  /\ round.timeRemaining = 0
  /\ lastEvent = "none"


(***************************************************************************)
(* C21..C25.                                                               *)
(***************************************************************************)
\* The round on display is Presenting: shown and not yet resolved.
Presenting == view = "question" /\ round # NoRound /\ ~round.answered

\* The key that stands for the choice at each position.
KeyOfChoice == <<"1", "2", "3", "4">>

\* The marks a resolution by choice leaves on the chosen button.
ChoiceMarks == {"correct", "wrong"}

\* C21: in a Presenting round, a press of key k in 1..4 with k no greater
\* than the number of choices resolves the round on the k-th choice, with
\* the very round, score and scheduled advance a click on that choice
\* gives; a key whose position exceeds the number of choices, and any other
\* key, changes nothing and leaves the round Presenting.
C21_KeyResolvesAsClickWould ==
  [][\A key \in Keys :
       (Presenting /\ Keydown(key)) =>
         IF \E k \in 1..Len(round.buttons) : KeyOfChoice[k] = key
         THEN LET k     == CHOOSE c \in 1..Len(round.buttons) : KeyOfChoice[c] = key
                  click == checkAnswer(round, currentQuiz, k)
              IN /\ round'.answered
                 /\ round'.buttons[k].classes \cap ChoiceMarks # {}
                 /\ \A c \in 1..Len(round.buttons) :
                      "wrong" \in round'.buttons[c].classes => c = k
                 /\ round' = click.round
                 /\ currentQuiz' = click.quiz
                 /\ animPending' = animPending + click.scheduled
         ELSE /\ UNCHANGED <<round, currentQuiz, animPending, nextPending, view>>
              /\ Presenting']_vars

\* A round of four choices that a key has resolved on its fourth choice,
\* a wrong one.
C21_FourthChoiceByKey ==
  /\ round # NoRound
  /\ Len(round.buttons) = 4
  /\ round.answered
  /\ ~round.timeUpMessage
  /\ lastEvent = "key"
  /\ "wrong" \in round.buttons[4].classes


\* The correct answer of a record together with all its incorrect answers,
\* as the card shows them.
ChoicesOf(record) ==
  Append([i \in 1..Len(record.incorrect_answers) |->
            decodeHtml(record.incorrect_answers[i])],
         decodeHtml(record.correct_answer))

\* How often x occurs in the list s.
Times(s, x) == Cardinality({i \in 1..Len(s) : s[i] = x})

\* The list s holds the entries of the list t, each as often as t does.
IsPermutation(s, t) ==
  /\ Len(s) = Len(t)
  /\ \A i \in 1..Len(t) : Times(s, t[i]) = Times(t, t[i])

\* C22: the choices of a round are, when the round is constructed, a
\* permutation of the correct answer and all the incorrect answers of its
\* question record, each appearing exactly as often as the record holds it
\* (once, for a record of distinct answers); and no tick, click, key,
\* resolution or timeout of that round changes them afterwards.
C22_ChoicesArePermutationAndFixed ==
  [][/\ NewRound =>
          LET record == currentQuiz'.questions[round'.index + 1]
          IN IsPermutation(round'.allAnswers, ChoicesOf(record))
     /\ SameRound => round'.allAnswers = round.allAnswers]_vars

\* A round of four choices whose shuffle has moved the correct answer from
\* the last place to the first, after ticks and a resolution.
C22_ShuffledRoundResolved ==
  /\ round # NoRound
  /\ Len(round.allAnswers) = 4
  /\ round.allAnswers[1] = round.correctAnswer
  /\ round.answered
  /\ round.timeRemaining < InitialTime

\* The start operation runs on what the player has typed.
StartOn(value) ==
  StartButtonClick(value) \/ QuestionsNumberKeydown("Enter", value)

\* What the player has typed is empty, or a number below the minimum or
\* above the maximum.
OutOfRange(value) ==
  \/ Len(value) = 0
  \/ parseInt(value) # NaN /\ parseInt(value) < MinQuestions
  \/ parseInt(value) # NaN /\ parseInt(value) > MaxQuestions

\* C23: every session the start operation creates has an integer
\* numberOfQuestions from 1 to 50; and on an input that is empty, below 1 or
\* above 50 the start operation creates no session, sends no request and
\* leaves the form shown.
C23_SessionCountInRange ==
  [][/\ (currentQuiz' # NoQuiz /\ currentQuiz' # currentQuiz) =>
          currentQuiz'.numberOfQuestions \in MinQuestions..MaxQuestions
     /\ \A value \in FormValues :
          (StartOn(value) /\ OutOfRange(value)) =>
            UNCHANGED <<currentQuiz, request, formHidden>>]_vars

\* The session's index lies within its questions.
InBounds(q) == q.currentQuestionIndex \in 0..(Len(q.questions) - 1)

\* An advance has found more questions, so that getNextQuestion goes on to
\* construct a Question.
AdvanceConstructs ==
  /\ Len(advanceLog') = Len(advanceLog) + 1
  /\ advanceLog'[Len(advanceLog')]

\* C24: a Question is only constructed while currentQuestionIndex is below
\* the number of questions: getCurrentQuestion returns the record at the
\* index when it is in bounds and the null sentinel otherwise, every new
\* round is the round of that record, and neither the start nor an advance
\* constructs a Question when the current question is the sentinel.
C24_RoundOnlyOnExistingQuestion ==
  [][/\ currentQuiz' # NoQuiz =>
          getCurrentQuestion(currentQuiz') =
            IF InBounds(currentQuiz')
            THEN currentQuiz'.questions[currentQuiz'.currentQuestionIndex + 1]
            ELSE NoQuestion
     /\ NewRound =>
          /\ InBounds(currentQuiz')
          /\ round'.index = currentQuiz'.currentQuestionIndex
          /\ round'.correctAnswer =
               decodeHtml(getCurrentQuestion(currentQuiz').correct_answer)
     /\ AdvanceConstructs => InBounds(currentQuiz') /\ NewRound
     /\ (Resumes /\ ~InBounds(currentQuiz')) => round' = NoRound /\ view' = "error"
     /\ errorMessage' # "Cannot read properties of null"]_vars

\* A session of two questions at its end: both rounds were constructed in
\* bounds, the current question is the sentinel, and no round stands on it.
C24_NoRoundOnSentinel ==
  /\ currentQuiz # NoQuiz
  /\ Len(currentQuiz.questions) = 2
  /\ getCurrentQuestion(currentQuiz) = NoQuestion
  /\ advanceLog = <<TRUE, FALSE>>
  /\ round = NoRound

\* C25 (as stated): the session that ends produces its results summary, and
\* no other step produces one; the end adds at most one entry to the
\* persisted leaderboard, the session's own and only when its result
\* qualifies as a high score; a session that does not qualify, and every
\* other step, leaves the persisted leaderboard as it was.
C25_OneSummaryAtMostOneEntry ==
  [][/\ EndsSession =>
          /\ view' = "results"
          /\ results' # NoResults
          /\ Len(Persisted(stored')) <= Len(Persisted(stored)) + 1
          /\ stored' # stored =>
               /\ results'.isNewHighScore
               /\ Occurrences(SummaryEntry(results'), Persisted(stored')) =
                    Occurrences(SummaryEntry(results'), Persisted(stored)) + 1
          /\ ~results'.isNewHighScore => stored' = stored
     /\ ~EndsSession =>
          /\ stored' = stored
          /\ results' \in {results, NoResults}]_vars
====
